---------------------------- MODULE Spec2Model ----------------------------
(***************************************************************************)
(* A model of the apimda runtimes:                                         *)
(*   packages/runtime-node/src/nodeRuntime.ts                              *)
(*   packages/runtime-lambda/src/awsLambdaRuntime.ts                       *)
(*                                                                         *)
(* JavaScript runs every asynchronous function to its next await without   *)
(* interruption, so one action of the model is one such synchronous chunk  *)
(* of a handler, and the suspension points (await) are the places where    *)
(* the chunks of different callers interleave.                             *)
(***************************************************************************)
EXTENDS Integers, Sequences, FiniteSets, TLC

\* Number of concurrent tasks (direct calls on a manager, Node requests,
\* Lambda events).  Each task performs one operation.
NumTasks == 2

Tasks == 1..NumTasks

\* JavaScript's undefined, where the value is otherwise a string.
Undefined == "undefined"

\* No object: the value of this.instance before the first construction.
NoObject == 0

(***************************************************************************)
(* The application metadata (RuntimeApp).  A path pattern is a sequence of *)
(* segments, each a literal or a named parameter.  The first controller    *)
(* declares an init method, the second does not.                           *)
(***************************************************************************)
Lit(s) == [k |-> "lit", s |-> s]

Param(s) == [k |-> "param", s |-> s]

Input(location, name, declaredTypeName) ==
  [location |-> location, name |-> name, declaredTypeName |-> declaredTypeName]

app ==
  [controllers |-> <<
     [className |-> "Users", initMethodName |-> "init",
      routes |-> <<
        [method |-> "get", path |-> <<Lit("users"), Lit("me")>>,
         inputs |-> <<Input("cookie", "sid", "string")>>],
        [method |-> "get", path |-> <<Lit("users"), Param("id")>>,
         inputs |-> <<Input("path", "id", "string")>>],
        [method |-> "post", path |-> <<Lit("users")>>,
         inputs |-> <<Input("body", "user", "User")>>] >>],
     [className |-> "Files", initMethodName |-> Undefined,
      routes |-> <<
        [method |-> "put", path |-> <<Lit("files"), Param("id")>>,
         inputs |-> <<Input("path", "id", "string"),
                      Input("body", "data", "Buffer")>>] >>] >>]

Controllers == DOMAIN app.controllers

VARIABLES
  mgr,          \* mgr[c]: the ControllerInstanceManager of controller c
  task,         \* task[p]: the position and locals of task p
  constructed,  \* constructed[c]: executions of `new clazz(args)`
  initRuns,     \* initRuns[c]: invocations of the init hook
  initDone,     \* initDone[c]: the objects whose init hook has completed
  probe         \* the input and output of a function applied on its own

vars == <<mgr, task, constructed, initRuns, initDone, probe>>

(***************************************************************************)
(* class ControllerInstanceManager                                         *)
(***************************************************************************)

\* constructor(runtime): module and instance start undefined, initialized is
\* true exactly when the controller declares no init method.
ControllerInstanceManager(runtime) ==
  [module |-> FALSE,
   instance |-> NoObject,
   initialized |-> (runtime.initMethodName = Undefined)]

\* A request that has not arrived, a route that was not resolved, a response
\* nothing was written to.
NoRequest == [url |-> FALSE, method |-> Undefined, path |-> <<>>]

NoRoute == [c |-> 0, r |-> 0]

NoResult ==
  [statusCode |-> 0, headers |-> <<>>, cookies |-> <<>>,
   body |-> [t |-> "string", s |-> ""], isBinary |-> FALSE]

IdleTask ==
  [pc |-> "idle", kind |-> "none", ctl |-> 0, hook |-> NoObject,
   ret |-> NoObject, called |-> NoObject, call |-> "none", alone |-> FALSE,
   req |-> NoRequest, route |-> NoRoute, valid |-> "none",
   invoked |-> FALSE, result |-> NoResult, response |-> <<>>]

\* loadModule(), up to its await: a cached module is returned, otherwise the
\* import is started.
loadModule(c) ==
  IF ~mgr[c].module THEN "awaitImport" ELSE "awaitClass"

\* Task t is inside getInstance(), between its call and its return.
InGetInstance(t) ==
  /\ t.call # "none"
  /\ t.pc \in {"awaitImport", "awaitClass", "awaitInit"}

\* What a call of getInstance() on the manager of controller c finds: "first"
\* when no call on that manager has completed yet, and whether no other call
\* on it is in flight.
CallOrder(c) ==
  IF \A q \in Tasks :
       task[q].ctl = c /\ task[q].call # "none" => InGetInstance(task[q])
  THEN "first" ELSE "later"

CallAlone(c) ==
  \A q \in Tasks : task[q].ctl = c => ~InGetInstance(task[q])

\* getInstance() without the test of this.instance: every call resolves the
\* class and constructs.
getInstanceUncached(t, c) ==
  [t EXCEPT !.ctl = c, !.call = CallOrder(c), !.alone = CallAlone(c),
            !.pc = loadModule(c)]

\* getInstance() called by task t on the manager of controller c, up to its
\* first await: the cached instance is returned when this.instance is set,
\* otherwise getClass() is awaited.
getInstance(t, c) ==
  LET u == [t EXCEPT !.ctl = c, !.call = CallOrder(c), !.alone = CallAlone(c)]
  IN IF mgr[c].instance = NoObject
     THEN [u EXCEPT !.pc = loadModule(c)]
     ELSE [u EXCEPT !.pc = "gotInstance", !.ret = mgr[c].instance]

\* A direct call of getInstance() on the manager of controller c.
CallGetInstance(p) ==
  /\ task[p].pc = "idle"
  /\ \E c \in Controllers :
       task' = [task EXCEPT ![p] =
                  getInstance([IdleTask EXCEPT !.kind = "getInstance"], c)]
  /\ UNCHANGED <<mgr, constructed, initRuns, initDone, probe>>

\* A call of invokeAsync(methodName, args): it starts with getInstance().
CallInvokeAsync(p) ==
  /\ task[p].pc = "idle"
  /\ \E c \in Controllers :
       task' = [task EXCEPT ![p] =
                  getInstance([IdleTask EXCEPT !.kind = "invokeAsync"], c)]
  /\ UNCHANGED <<mgr, constructed, initRuns, initDone, probe>>

\* A call of invokeStatic(methodName, args): it starts with getClass().
CallInvokeStatic(p) ==
  /\ task[p].pc = "idle"
  /\ \E c \in Controllers :
       task' = [task EXCEPT ![p] =
                  [IdleTask EXCEPT !.pc = loadModule(c),
                                   !.kind = "invokeStatic", !.ctl = c]]
  /\ UNCHANGED <<mgr, constructed, initRuns, initDone, probe>>

\* loadModule() after `await import(moduleName)`: the module is cached.
ImportDone(p) ==
  /\ task[p].pc = "awaitImport"
  /\ mgr' = [mgr EXCEPT ![task[p].ctl].module = TRUE]
  /\ task' = [task EXCEPT ![p].pc = "awaitClass"]
  /\ UNCHANGED <<constructed, initRuns, initDone, probe>>

\* The import rejects: loadModule, getClass and the caller's call reject.
ImportFail(p) ==
  /\ task[p].pc = "awaitImport"
  /\ task' = [task EXCEPT ![p].pc = "rejected"]
  /\ UNCHANGED <<mgr, constructed, initRuns, initDone, probe>>

\* The object a construction on controller c creates.
NewObject(c) == constructed[c] + 1

\* getInstance() after `await this.getClass()`:
\*   this.instance = new clazz(args);
\*   if (!this.initialized) { await this.instance[initMethodName].apply(...)
\* and otherwise `return this.instance`.
Construct(p) ==
  LET c == task[p].ctl
      o == NewObject(c)
  IN /\ task[p].pc = "awaitClass"
     /\ task[p].kind # "invokeStatic"
     /\ constructed' = [constructed EXCEPT ![c] = o]
     /\ mgr' = [mgr EXCEPT ![c].instance = o]
     /\ IF ~mgr[c].initialized
        THEN /\ initRuns' = [initRuns EXCEPT ![c] = @ + 1]
             /\ task' = [task EXCEPT ![p].pc = "awaitInit", ![p].hook = o]
        ELSE /\ initRuns' = initRuns
             /\ task' = [task EXCEPT ![p].pc = "gotInstance", ![p].ret = o]
     /\ UNCHANGED <<initDone, probe>>

\* The constructor throws (or the module has no such class): the call rejects
\* and this.instance keeps its value.
ConstructFail(p) ==
  /\ task[p].pc = "awaitClass"
  /\ task[p].kind # "invokeStatic"
  /\ task' = [task EXCEPT ![p].pc = "rejected"]
  /\ UNCHANGED <<mgr, constructed, initRuns, initDone, probe>>

\* getInstance() after the init hook's await:
\*   this.initialized = true;  return this.instance;
InitDone(p) ==
  LET c == task[p].ctl
  IN /\ task[p].pc = "awaitInit"
     /\ initDone' = [initDone EXCEPT ![c] = @ \cup {task[p].hook}]
     /\ mgr' = [mgr EXCEPT ![c].initialized = TRUE]
     /\ task' = [task EXCEPT ![p].pc = "gotInstance",
                             ![p].ret = mgr[c].instance]
     /\ UNCHANGED <<constructed, initRuns, probe>>

\* The init hook throws or rejects: the call rejects, this.instance stays set
\* and this.initialized stays false.
InitFail(p) ==
  /\ task[p].pc = "awaitInit"
  /\ task' = [task EXCEPT ![p].pc = "rejected"]
  /\ UNCHANGED <<mgr, constructed, initRuns, initDone, probe>>

\* invokeAsync() after `await this.getInstance()`: the handler method is
\* applied to the instance.
invokeAsync(p) ==
  /\ task[p].pc = "gotInstance"
  /\ task[p].kind = "invokeAsync"
  /\ task' = [task EXCEPT ![p].pc = "done", ![p].called = task[p].ret]
  /\ UNCHANGED <<mgr, constructed, initRuns, initDone, probe>>

\* invokeStatic() that constructs an instance to reach the class.
invokeStaticViaInstance(p) ==
  LET c == task[p].ctl
  IN /\ task[p].pc = "awaitClass"
     /\ task[p].kind = "invokeStatic"
     /\ constructed' = [constructed EXCEPT ![c] = NewObject(c)]
     /\ mgr' = [mgr EXCEPT ![c].instance = NewObject(c)]
     /\ task' = [task EXCEPT ![p].pc = "done"]
     /\ UNCHANGED <<initRuns, initDone, probe>>

\* invokeStatic() after `await this.getClass()`: the method is called on the
\* class.
invokeStatic(p) ==
  /\ task[p].pc = "awaitClass"
  /\ task[p].kind = "invokeStatic"
  /\ task' = [task EXCEPT ![p].pc = "done"]
  /\ UNCHANGED <<mgr, constructed, initRuns, initDone, probe>>

(***************************************************************************)
(* Values of RuntimeResult headers and cookies: string | number | boolean. *)
(***************************************************************************)
Str(s) == [t |-> "string", s |-> s]

Num(n) == [t |-> "number", n |-> n]

Bool(b) == [t |-> "boolean", b |-> b]

Digit == <<"0", "1", "2", "3", "4", "5", "6", "7", "8", "9">>

RECURSIVE NatToString(_)
NatToString(n) ==
  IF n < 10 THEN Digit[n + 1]
  ELSE NatToString(n \div 10) \o Digit[(n % 10) + 1]

\* value.toString() and `${value}`
toString(v) ==
  CASE v.t = "string" -> v.s
    [] v.t = "number" -> IF v.n < 0 THEN "-" \o NatToString(-v.n)
                         ELSE NatToString(v.n)
    [] v.t = "boolean" -> IF v.b THEN "true" ELSE "false"

\* JavaScript truthiness of a string | number | boolean.
Truthy(v) ==
  CASE v.t = "string" -> v.s # ""
    [] v.t = "number" -> v.n # 0
    [] v.t = "boolean" -> v.b

\* statusCodeToDesc of @apimda/runtime: the stable description of a status.
statusCodeToDesc(statusCode) ==
  CASE statusCode = 400 -> "Bad Request"
    [] statusCode = 404 -> "Not Found"
    [] statusCode = 500 -> "Internal Server Error"

\* sendErrorResponse(response, statusCode): what is written to the response.
sendErrorResponse(statusCode) ==
  [statusCode |-> statusCode,
   headers |-> [h \in {"Content-Type"} |-> "text/plain"],
   body |-> Str(statusCodeToDesc(statusCode))]

\* All cookies joined into one combined entry `a=b; c=d`.
RECURSIVE joinCookies(_)
joinCookies(cookies) ==
  IF cookies = <<>> THEN ""
  ELSE Head(cookies)[1] \o "=" \o toString(Head(cookies)[2])
       \o (IF Tail(cookies) = <<>> THEN "" ELSE "; ")
       \o joinCookies(Tail(cookies))

cookieListCombined(cookies) ==
  IF cookies = <<>> THEN <<>> ELSE <<joinCookies(cookies)>>

\* The cookie list of sendResultResponse and toLambdaCookies: one
\* `${cookieName}=${value}` per key of the cookie mapping, in key order.
cookieList(cookies) ==
  [i \in DOMAIN cookies |-> cookies[i][1] \o "=" \o toString(cookies[i][2])]

\* `if (!result.headers['Content-Type'])` of sendResultResponse.
lacksContentType(headers) ==
  \/ "Content-Type" \notin DOMAIN headers
  \/ ~Truthy(headers["Content-Type"])

\* sendResultResponse(response, result): what is written to the response.
sendResultResponse(result) ==
  LET copied == [h \in DOMAIN result.headers |-> toString(result.headers[h])]
      typed == IF lacksContentType(result.headers)
               THEN [h \in DOMAIN copied \cup {"Content-Type"} |->
                       IF h = "Content-Type" THEN "application/json"
                       ELSE copied[h]]
               ELSE copied
      cookies == cookieList(result.cookies)
      outgoingHeaders ==
        IF Len(cookies) > 0
        THEN [h \in DOMAIN typed \cup {"Set-Cookie"} |->
                IF h = "Set-Cookie" THEN cookies ELSE typed[h]]
        ELSE typed
  IN [statusCode |-> result.statusCode,
      headers |-> outgoingHeaders,
      body |-> result.body]

(***************************************************************************)
(* RouteMatcher (./routeMatcher, not among the sources): a per-method trie *)
(* in which a literal segment takes precedence over the parameter          *)
(* wildcard of the same depth and the segment count must match exactly.    *)
(***************************************************************************)
RouteKeys ==
  UNION {{[c |-> c, r |-> r] : r \in DOMAIN app.controllers[c].routes} :
           c \in Controllers}

RouteOf(k) == app.controllers[k.c].routes[k.r]

\* A manager created anew for every route, inside the loop over the routes.
managerOfPerRoute(k) ==
  Cardinality({j \in RouteKeys : j.c < k.c \/ (j.c = k.c /\ j.r <= k.r)})

\* The manager route k is registered with.  createRequestListener and
\* createAwsLambdaHandler call `new ControllerInstanceManager(controller)`
\* once per controller, before the loop over its routes; managers are
\* numbered in the order of their creation.
managerOf(k) == k.c

\* The managers created when the listener (the handler) is built.
Managers == {managerOf(k) : k \in RouteKeys}

\* The `runtime` a manager was constructed with.
runtimeOf(m) == app.controllers[(CHOOSE k \in RouteKeys : managerOf(k) = m).c]

\* `${route.method}/${route.path}`
routePathOf(route) == [method |-> route.method, path |-> route.path]

SegmentMatches(pattern, segment) ==
  pattern.k = "param" \/ pattern.s = segment

PatternMatches(routePath, method, segments) ==
  /\ routePath.method = method
  /\ Len(routePath.path) = Len(segments)
  /\ \A i \in DOMAIN segments : SegmentMatches(routePath.path[i], segments[i])

\* The walk with the precedence reversed: the parameter branch is taken first.
RECURSIVE PreferParam(_, _, _)
PreferParam(candidates, i, n) ==
  IF i > n THEN candidates
  ELSE LET wildcard == {rp \in candidates : rp.path[i].k = "param"}
       IN PreferParam(IF wildcard # {} THEN wildcard ELSE candidates, i + 1, n)

\* Among the candidates, those the trie walk reaches first: at each depth the
\* literal branch is taken when it leads to a complete route.
RECURSIVE Prefer(_, _, _)
Prefer(candidates, i, n) ==
  IF i > n THEN candidates
  ELSE LET literal == {rp \in candidates : rp.path[i].k = "lit"}
       IN Prefer(IF literal # {} THEN literal ELSE candidates, i + 1, n)

NoMatch ==
  [found |-> FALSE, path |-> [method |-> Undefined, path |-> <<>>],
   pathParameters |-> <<>>]

\* routeMatcher.match(routePath) over the registered route paths.
match(registered, method, segments) ==
  LET candidates == {rp \in registered : PatternMatches(rp, method, segments)}
  IN IF candidates = {} THEN NoMatch
     ELSE LET rp == CHOOSE x \in Prefer(candidates, 1, Len(segments)) : TRUE
              params == {i \in DOMAIN rp.path : rp.path[i].k = "param"}
          IN [found |-> TRUE, path |-> rp,
              pathParameters |->
                [name \in {rp.path[i].s : i \in params} |->
                   segments[CHOOSE i \in params : rp.path[i].s = name]]]

(***************************************************************************)
(* createRequestListener(app)                                              *)
(***************************************************************************)

\* The route paths added to the routeMatcher.
routeMatcher == {routePathOf(RouteOf(k)) : k \in RouteKeys}

\* routeMap: route path -> [controllerInstanceManager, route].  The manager
\* of a controller is created once, in the loop over app.controllers.
routeMap ==
  [rp \in routeMatcher |->
     LET k == CHOOSE j \in RouteKeys : routePathOf(RouteOf(j)) = rp
     IN [controllerInstanceManager |-> managerOf(k), route |-> k]]

\* route.inputs.find(i => i.location === 'body')
hasBodyInput(route) ==
  \E i \in DOMAIN route.inputs : route.inputs[i].location = "body"

\* The requests the listener is given.
Requests ==
  {[url |-> TRUE, method |-> "get", path |-> <<"users", "me">>],
   [url |-> TRUE, method |-> "get", path |-> <<"users", "42">>],
   [url |-> TRUE, method |-> "post", path |-> <<"users">>],
   [url |-> TRUE, method |-> "put", path |-> <<"files", "7">>],
   [url |-> TRUE, method |-> "get", path |-> <<"nope">>],
   [url |-> TRUE, method |-> "delete", path |-> <<"users", "me">>],
   [url |-> FALSE, method |-> "get", path |-> <<>>]}

\* The listener without the `return` after sendErrorResponse: having written
\* the 404 it goes on to write a result.
requestListenerFallThrough(t) ==
  LET routeMatch == match(routeMatcher, t.req.method, t.req.path)
      found == routeMap[routeMatch.path]
  IN IF ~t.req.url \/ ~routeMatch.found
     THEN [t EXCEPT !.pc = "result",
                    !.response = Append(@, sendErrorResponse(404))]
     ELSE getInstance([t EXCEPT !.route = found.route],
                      found.controllerInstanceManager)

\* The request listener up to its first await: 404 when the request has no
\* url or no route matches; otherwise the body is awaited when the route
\* declares a body input, and getInstance() is called when it does not.
requestListener(t) ==
  LET routeMatch == match(routeMatcher, t.req.method, t.req.path)
      found == routeMap[routeMatch.path]
  IN IF ~t.req.url \/ ~routeMatch.found
     THEN [t EXCEPT !.pc = "done",
                    !.response = Append(@, sendErrorResponse(404))]
     ELSE IF hasBodyInput(RouteOf(found.route))
          THEN [t EXCEPT !.pc = "awaitBody", !.route = found.route,
                         !.ctl = found.controllerInstanceManager]
          ELSE getInstance([t EXCEPT !.route = found.route],
                           found.controllerInstanceManager)

\* A request arrives at the listener.
Request(p) ==
  /\ task[p].pc = "idle"
  /\ \E rq \in Requests :
       task' = [task EXCEPT ![p] =
                  requestListener([IdleTask EXCEPT !.kind = "request",
                                                   !.req = rq])]
  /\ UNCHANGED <<mgr, constructed, initRuns, initDone, probe>>

\* getBody() resolves: the extractor is built and getInstance() is called.
BodyDone(p) ==
  /\ task[p].pc = "awaitBody"
  /\ task' = [task EXCEPT ![p] = getInstance(task[p], task[p].ctl)]
  /\ UNCHANGED <<mgr, constructed, initRuns, initDone, probe>>

\* getBody() rejects (a body over the limit, a length mismatch, a stream or
\* decompression error): the listener's promise rejects.
BodyFail(p) ==
  /\ task[p].pc = "awaitBody"
  /\ task' = [task EXCEPT ![p].pc = "rejected"]
  /\ UNCHANGED <<mgr, constructed, initRuns, initDone, probe>>

\* sendResultResponse(response, result) after `await processRequest(...)`.
Respond(p) ==
  /\ task[p].pc = "result"
  /\ task[p].kind = "request"
  /\ task' = [task EXCEPT ![p].pc = "done",
                ![p].response = Append(@, sendResultResponse(task[p].result))]
  /\ UNCHANGED <<mgr, constructed, initRuns, initDone, probe>>

(***************************************************************************)
(* LambdaExtractor.  An absent (undefined) field of the event is None.  A  *)
(* cookie string is a sequence of tokens, each "=" or a text without "=".  *)
(***************************************************************************)
None == [some |-> FALSE]

Some(v) == [some |-> TRUE, v |-> v]

Undef == [t |-> "undefined"]

Buf(bytes) == [t |-> "Buffer", bytes |-> bytes]

Json(v) == [t |-> "json", j |-> v]

Return(v) == [k |-> "return", v |-> v]

Throw(name, statusCode, message) ==
  [k |-> "throw", name |-> name, statusCode |-> statusCode,
   message |-> message]

\* String.prototype.toLowerCase / toUpperCase on the names of the model.
toLowerCase(s) ==
  CASE s = "X-Token" -> "x-token"
    [] s = "Content-Type" -> "content-type"
    [] s = "X-Test" -> "x-test"
    [] s = "Set-Cookie" -> "set-cookie"
    [] s = "GET" -> "get"
    [] s = "POST" -> "post"
    [] s = "PUT" -> "put"
    [] OTHER -> s

toUpperCase(s) ==
  CASE s = "get" -> "GET"
    [] s = "post" -> "POST"
    [] s = "put" -> "PUT"
    [] s = "x-token" -> "X-TOKEN"
    [] OTHER -> s

\* The members every plain object inherits from Object.prototype.
ObjectPrototype == {"constructor", "toString", "valueOf", "hasOwnProperty"}

Inherited(name) == [t |-> "function", name |-> name]

\* (map || {})[name]: the map's own property, else the member of that name
\* that the map, or the literal {}, inherits, else undefined.
lookup(map, name) ==
  IF map.some /\ name \in DOMAIN map.v THEN Return(Str(map.v[name]))
  ELSE IF name \in ObjectPrototype THEN Return(Inherited(name))
  ELSE Return(Undef)

\* cookie.indexOf('='): the length of the text before the first "=", or -1.
RECURSIVE indexOfEq(_)
indexOfEq(cookie) ==
  IF cookie = <<>> THEN -1
  ELSE IF Head(cookie) = "=" THEN 0
  ELSE LET rest == indexOfEq(Tail(cookie))
       IN IF rest < 0 THEN -1 ELSE Len(Head(cookie)) + rest

RECURSIVE concat(_)
concat(tokens) ==
  IF tokens = <<>> THEN "" ELSE Head(tokens) \o concat(Tail(tokens))

\* The position of the first "=" token (0 when there is none).
RECURSIVE firstEq(_, _)
firstEq(cookie, i) ==
  IF i > Len(cookie) THEN 0
  ELSE IF cookie[i] = "=" THEN i ELSE firstEq(cookie, i + 1)

\* cookie.substring(0, eqIdx) and cookie.substring(eqIdx + 1)
cookieName(cookie) == concat(SubSeq(cookie, 1, firstEq(cookie, 1) - 1))

cookieValue(cookie) ==
  concat(SubSeq(cookie, firstEq(cookie, 1) + 1, Len(cookie)))

\* The loop without its `return`: the last cookie of the list named `name`.
RECURSIVE extractCookieLast(_, _)
extractCookieLast(cookies, name) ==
  IF cookies = <<>> THEN Return(Undef)
  ELSE LET later == extractCookieLast(Tail(cookies), name)
       IN IF later.v.t # "undefined" THEN later
          ELSE IF indexOfEq(Head(cookies)) > 0
                  /\ name = cookieName(Head(cookies))
          THEN Return(Str(cookieValue(Head(cookies))))
          ELSE Return(Undef)

\* case 'cookie': the value of the first cookie of the list named `name`.
RECURSIVE extractCookie(_, _)
extractCookie(cookies, name) ==
  IF cookies = <<>> THEN Return(Undef)
  ELSE IF indexOfEq(Head(cookies)) > 0 /\ name = cookieName(Head(cookies))
       THEN Return(Str(cookieValue(Head(cookies))))
       ELSE extractCookie(Tail(cookies), name)

\* JSON.parse(text) on the body texts of the model.
JSONparse(text) ==
  CASE text = "{\"a\":1}" -> Return(Json([a |-> 1]))
    [] text = "42" -> Return(Json(42))
    [] OTHER -> Throw("SyntaxError", 0, "Unexpected token")

\* Buffer.from(text, 'base64') on the body texts of the model: characters
\* outside the alphabet are skipped, a trailing partial group is dropped.
fromBase64(text) ==
  CASE text = "aGk=" -> Buf(<<104, 105>>)
    [] text = "{\"a\":1}" -> Buf(<<107>>)
    [] text = "{bad" -> Buf(<<109, 167>>)
    [] text = "42" -> Buf(<<227>>)
    [] OTHER -> Buf(<<>>)

\* case 'body' without the check of event.isBase64Encoded.
extractBodyUnchecked(event, input) ==
  IF ~event.body.some \/ event.body.v = ""
  THEN Return(Undef)
  ELSE IF input.declaredTypeName = "string"
  THEN Return(Str(event.body.v))
  ELSE IF input.declaredTypeName = "Buffer"
  THEN Return(fromBase64(event.body.v))
  ELSE JSONparse(event.body.v)

\* case 'body'
extractBody(event, input) ==
  IF ~event.body.some \/ event.body.v = ""
  THEN Return(Undef)
  ELSE IF input.declaredTypeName = "string"
  THEN Return(Str(event.body.v))
  ELSE IF input.declaredTypeName = "Buffer"
  THEN IF ~event.isBase64Encoded
       THEN Throw("HttpError", 400, "Expected binary input")
       ELSE Return(fromBase64(event.body.v))
  ELSE JSONparse(event.body.v)

\* LambdaExtractor.extract(input) on `event`
extract(event, input) ==
  CASE input.location = "request" -> Return([t |-> "event", e |-> event])
    [] input.location = "query" ->
         lookup(event.queryStringParameters, input.name)
    [] input.location = "path" -> lookup(event.pathParameters, input.name)
    [] input.location = "header" ->
         lookup(event.headers, toLowerCase(input.name))
    [] input.location = "cookie" ->
         IF event.cookies.some
         THEN extractCookie(event.cookies.v, input.name)
         ELSE Return(Undef)
    [] input.location = "body" -> extractBody(event, input)
    [] OTHER ->
         Throw("Error", 0, "Unsupported param type: " \o input.location)

(***************************************************************************)
(* processRequest of @apimda/runtime (not among the sources), after the    *)
(* specification's pipeline: extract each input, validate, obtain the      *)
(* instance, invoke the method, shape the result.  An error is turned into *)
(* a result that carries its status and the status's description.          *)
(***************************************************************************)
errorResult(statusCode) ==
  [statusCode |-> statusCode,
   headers |-> [h \in {"Content-Type"} |-> Str("text/plain")],
   cookies |-> <<>>,
   body |-> Str(statusCodeToDesc(statusCode)),
   isBinary |-> FALSE]

\* The handler method is invoked (on the instance, when the caller holds one).
invokeHandler(t) ==
  [t EXCEPT !.pc = "awaitHandler", !.invoked = TRUE, !.called = t.ret]

\* processRequest with the validator's verdict ignored: the method is invoked
\* although the validation failed.
processRequestUnvalidated(t, extracted, valid) ==
  IF extracted = "fault"
  THEN [t EXCEPT !.pc = "result", !.result = errorResult(500)]
  ELSE IF extracted = "client"
  THEN [t EXCEPT !.pc = "result", !.result = errorResult(400)]
  ELSE invokeHandler([t EXCEPT !.valid = IF valid THEN "ok" ELSE "failed"])

\* Steps 2 to 4.  `extracted` is how extraction ended: "ok", "client" (an
\* HttpError of status 400) or "fault" (any other error); `valid` is the
\* validator's verdict on the extracted values.
processRequest(t, extracted, valid) ==
  IF extracted = "fault"
  THEN [t EXCEPT !.pc = "result", !.result = errorResult(500)]
  ELSE IF extracted = "client"
  THEN [t EXCEPT !.pc = "result", !.result = errorResult(400)]
  ELSE IF ~valid
  THEN [t EXCEPT !.pc = "result", !.valid = "failed",
                 !.result = errorResult(400)]
  ELSE IF t.kind = "event"
  THEN [t EXCEPT !.pc = "awaitInstance", !.valid = "ok"]
  ELSE invokeHandler([t EXCEPT !.valid = "ok"])

\* The results a handler's return value is shaped to.
HandlerResults ==
  {[statusCode |-> 200, headers |-> <<>>, cookies |-> <<>>,
    body |-> Str("{}"), isBinary |-> FALSE],
   [statusCode |-> 200,
    headers |-> [h \in {"content-type"} |-> Str("image/png")],
    cookies |-> << <<"a", Str("b")>> >>,
    body |-> Buf(<<104, 105>>), isBinary |-> TRUE]}

\* The Node listener calls processRequest(extractor, route, instance,
\* validator) after `await controllerInstanceManager.getInstance()`.
Dispatch(p) ==
  /\ task[p].pc = "gotInstance"
  /\ task[p].kind = "request"
  /\ \E extracted \in {"ok", "client", "fault"}, valid \in BOOLEAN :
       task' = [task EXCEPT ![p] = processRequest(task[p], extracted, valid)]
  /\ UNCHANGED <<mgr, constructed, initRuns, initDone, probe>>

\* Step 4 on the Lambda transport: the runtime's manager yields the instance
\* and the method is invoked.
ObtainInstance(p) ==
  /\ task[p].pc = "awaitInstance"
  /\ task' = [task EXCEPT ![p] = invokeHandler(task[p])]
  /\ UNCHANGED <<mgr, constructed, initRuns, initDone, probe>>

\* Step 4 fails (module, class, construction or init hook): status 500.
ObtainInstanceFail(p) ==
  /\ task[p].pc = "awaitInstance"
  /\ task' = [task EXCEPT ![p].pc = "result", ![p].result = errorResult(500)]
  /\ UNCHANGED <<mgr, constructed, initRuns, initDone, probe>>

\* Steps 5 and 6: the handler returns and its value is shaped to a result.
HandlerReturn(p) ==
  /\ task[p].pc = "awaitHandler"
  /\ \E r \in HandlerResults :
       task' = [task EXCEPT ![p].pc = "result", ![p].result = r]
  /\ UNCHANGED <<mgr, constructed, initRuns, initDone, probe>>

\* The handler throws: an unclassified fault is status 500.
HandlerThrow(p) ==
  /\ task[p].pc = "awaitHandler"
  /\ task' = [task EXCEPT ![p].pc = "result", ![p].result = errorResult(500)]
  /\ UNCHANGED <<mgr, constructed, initRuns, initDone, probe>>

(***************************************************************************)
(* createAwsLambdaHandler(app)                                             *)
(***************************************************************************)

\* `${route.method.toUpperCase()} ${route.path}`
routeKeyOf(route) == [method |-> toUpperCase(route.method), path |-> route.path]

\* routesByPath: route key -> { controllerManager, route }
routesByPath ==
  [rk \in {routeKeyOf(RouteOf(k)) : k \in RouteKeys} |->
     LET k == CHOOSE j \in RouteKeys : routeKeyOf(RouteOf(j)) = rk
     IN [controllerManager |-> managerOf(k), route |-> k]]

\* Buffer.toString('base64') on the bodies of the model.
toBase64(buffer) ==
  CASE buffer.bytes = <<104, 105>> -> Str("aGk=")
    [] buffer.bytes = <<>> -> Str("")
    [] OTHER -> Str("?")

toLambdaCookies(cookies) == cookieList(cookies)

toLambdaResult(result) ==
  [statusCode |-> result.statusCode,
   headers |-> result.headers,
   cookies |-> toLambdaCookies(result.cookies),
   body |-> IF result.isBinary THEN toBase64(result.body) ELSE result.body,
   isBase64Encoded |-> result.isBinary]

LambdaEvent(routeKey, body, isBase64Encoded, cookies, others) ==
  [routeKey |-> routeKey, body |-> body, isBase64Encoded |-> isBase64Encoded,
   cookies |-> cookies, queryStringParameters |-> others,
   pathParameters |-> others, headers |-> others]

\* The route key of an event the gateway matched to no route of the app.
DefaultRouteKey == [method |-> "$default", path |-> <<>>]

\* The events the handler is given.
Events ==
  {LambdaEvent(rk, body, b64, None, Some([id |-> "7"])) :
     rk \in DOMAIN routesByPath \cup {DefaultRouteKey},
     body \in {None, Some("{\"a\":1}"), Some("{bad")},
     b64 \in BOOLEAN}

\* How the extraction of the inputs, in declared order, ends.
RECURSIVE extractAll(_, _)
extractAll(event, inputs) ==
  IF inputs = <<>> THEN "ok"
  ELSE LET got == extract(event, Head(inputs))
       IN IF got.k = "return" THEN extractAll(event, Tail(inputs))
          ELSE IF got.name = "HttpError" THEN "client" ELSE "fault"

\* The handler up to its first await: routeInfo.route is read (a TypeError
\* when the route key is not in routesByPath) and processRequest is called.
lambdaHandler(t, event, valid) ==
  IF event.routeKey \notin DOMAIN routesByPath
  THEN [t EXCEPT !.pc = "rejected"]
  ELSE LET routeInfo == routesByPath[event.routeKey]
       IN processRequest([t EXCEPT !.route = routeInfo.route,
                                   !.ctl = routeInfo.controllerManager],
                         extractAll(event, RouteOf(routeInfo.route).inputs),
                         valid)

\* An event arrives at the Lambda handler.
Event(p) ==
  /\ task[p].pc = "idle"
  /\ \E event \in Events, valid \in BOOLEAN :
       task' = [task EXCEPT ![p] =
                  lambdaHandler([IdleTask EXCEPT
                                   !.kind = "event",
                                   !.req = [url |-> TRUE,
                                            method |-> event.routeKey.method,
                                            path |-> event.routeKey.path]],
                                event, valid)]
  /\ UNCHANGED <<mgr, constructed, initRuns, initDone, probe>>

\* `return toLambdaResult(result)` after `await processRequest(...)`.
ReturnResult(p) ==
  /\ task[p].pc = "result"
  /\ task[p].kind = "event"
  /\ task' = [task EXCEPT ![p].pc = "done",
                ![p].response = Append(@, toLambdaResult(task[p].result))]
  /\ UNCHANGED <<mgr, constructed, initRuns, initDone, probe>>

(***************************************************************************)
(* The system: tasks that call a manager, send a request to the Node       *)
(* listener or hand an event to the Lambda handler.                        *)
(***************************************************************************)
NoProbe == [op |-> "none"]

Init ==
  /\ mgr = [m \in Managers |-> ControllerInstanceManager(runtimeOf(m))]
  /\ task = [p \in Tasks |-> IdleTask]
  /\ constructed = [c \in Controllers |-> 0]
  /\ initRuns = [c \in Controllers |-> 0]
  /\ initDone = [c \in Controllers |-> {}]
  /\ probe = NoProbe

Next ==
  \E p \in Tasks :
    \/ CallGetInstance(p)
    \/ CallInvokeAsync(p)
    \/ CallInvokeStatic(p)
    \/ ImportDone(p)
    \/ ImportFail(p)
    \/ Construct(p)
    \/ ConstructFail(p)
    \/ InitDone(p)
    \/ InitFail(p)
    \/ invokeAsync(p)
    \/ invokeStatic(p)
    \/ Request(p)
    \/ BodyDone(p)
    \/ BodyFail(p)
    \/ Dispatch(p)
    \/ Respond(p)
    \/ Event(p)
    \/ ObtainInstance(p)
    \/ ObtainInstanceFail(p)
    \/ HandlerReturn(p)
    \/ HandlerThrow(p)
    \/ ReturnResult(p)

Spec == Init /\ [][Next]_vars

(***************************************************************************)
(* LambdaExtractor.extract applied to one event and one input descriptor.  *)
(***************************************************************************)
Pending == [k |-> "pending"]

Quiet ==
  /\ mgr = [m \in Managers |-> ControllerInstanceManager(runtimeOf(m))]
  /\ task = [p \in Tasks |-> IdleTask]
  /\ constructed = [c \in Controllers |-> 0]
  /\ initRuns = [c \in Controllers |-> 0]
  /\ initDone = [c \in Controllers |-> {}]

ProbeBodies ==
  {None, Some(""), Some("aGk="), Some("{\"a\":1}"), Some("{bad"), Some("42")}

ProbeCookies ==
  {None,
   Some(<<>>),
   Some(<< <<"sid", "=", "abc">> >>),
   Some(<< <<"=", "x">>, <<"sid", "=", "a", "=", "b">>, <<"sid", "=", "z">> >>),
   Some(<< <<"sid">>, <<"other", "=", "1">>, <<"sid", "=">> >>)}

ProbeMaps ==
  {None, Some(<<>>), Some([n \in {"id", "x-token"} |-> "7"])}

ProbeEvents ==
  {LambdaEvent(DefaultRouteKey, body, b64, cookies, others) :
     body \in ProbeBodies, b64 \in BOOLEAN,
     cookies \in ProbeCookies, others \in ProbeMaps}

ProbeInputs ==
  {Input(location, name, declaredTypeName) :
     location \in {"request", "query", "path", "header", "cookie", "body"},
     name \in {"id", "sid", "X-Token", "missing", "constructor"},
     declaredTypeName \in {"string", "Buffer", "User"}}

InitExtract ==
  /\ Quiet
  /\ probe \in {[op |-> "extract", event |-> e, input |-> i, out |-> Pending] :
                  e \in ProbeEvents, i \in ProbeInputs}

Extract ==
  /\ probe.op = "extract"
  /\ probe.out = Pending
  /\ probe' = [probe EXCEPT !.out = extract(probe.event, probe.input)]
  /\ UNCHANGED <<mgr, task, constructed, initRuns, initDone>>

SpecExtract == InitExtract /\ [][Extract]_vars

(***************************************************************************)
(* sendResultResponse and toLambdaResult applied to one RuntimeResult.     *)
(***************************************************************************)
\* The header mappings that give each of their names one of its values.
HeaderMaps(choices) ==
  {h \in UNION {[names -> UNION {choices[n] : n \in names}] :
                  names \in SUBSET DOMAIN choices} :
     \A n \in DOMAIN h : h[n] \in choices[n]}

\* Header names are unique whatever their capitalisation.
ProbeHeaders ==
  {h \in HeaderMaps([n \in {"Content-Type", "content-type", "X-Test"} |->
                       IF n = "Content-Type" THEN {Str("text/html")}
                       ELSE IF n = "content-type" THEN {Str("text/plain")}
                       ELSE {Str("1"), Num(1)}]) :
     ~({"Content-Type", "content-type"} \subseteq DOMAIN h)}

ProbeCookieMaps ==
  {<<>>,
   << <<"a", Str("b")>> >>,
   << <<"a", Str("b")>>, <<"c", Str("d")>> >>,
   << <<"n", Num(5)>>, <<"t", Bool(TRUE)>> >>}

ProbeResults ==
  {[statusCode |-> 200, headers |-> h, cookies |-> c, body |-> b.body,
    isBinary |-> b.isBinary] :
     h \in ProbeHeaders, c \in ProbeCookieMaps,
     b \in {[body |-> Str("{}"), isBinary |-> FALSE],
            [body |-> Buf(<<104, 105>>), isBinary |-> TRUE]}}

InitWriter ==
  /\ Quiet
  /\ probe \in {[op |-> "write", result |-> r, node |-> Pending,
                 lambda |-> Pending] : r \in ProbeResults}

WriteNode ==
  /\ probe.op = "write"
  /\ probe.node = Pending
  /\ probe' = [probe EXCEPT !.node = sendResultResponse(probe.result)]
  /\ UNCHANGED <<mgr, task, constructed, initRuns, initDone>>

WriteLambda ==
  /\ probe.op = "write"
  /\ probe.lambda = Pending
  /\ probe' = [probe EXCEPT !.lambda = toLambdaResult(probe.result)]
  /\ UNCHANGED <<mgr, task, constructed, initRuns, initDone>>

NextWriter == WriteNode \/ WriteLambda

SpecWriter == InitWriter /\ [][NextWriter]_vars

(***************************************************************************)
(* RouteMatcher.match applied to one request path, over route paths added  *)
(* to the matcher in some order.                                           *)
(***************************************************************************)
\* The largest number of route paths added to a matcher.
MaxRoutes == 3

ProbePatterns ==
  {[method |-> "get", path |-> <<Lit("users"), Lit("me")>>],
   [method |-> "get", path |-> <<Lit("users"), Param("id")>>],
   [method |-> "get", path |-> <<Param("kind"), Lit("me")>>],
   [method |-> "post", path |-> <<Lit("users"), Param("id")>>]}

\* The orders in which distinct route paths are added.
ProbeRegistrations ==
  {s \in UNION {[1..n -> ProbePatterns] : n \in 0..MaxRoutes} :
     \A i, j \in DOMAIN s : i # j => s[i] # s[j]}

ProbePaths ==
  {[method |-> "get", path |-> <<"users", "me">>],
   [method |-> "get", path |-> <<"users", "42">>],
   [method |-> "get", path |-> <<"files", "me">>],
   [method |-> "post", path |-> <<"users", "me">>],
   [method |-> "get", path |-> <<"users">>]}

\* routeMatcher.add(routePath) for each route path, in order.
addAll(routePaths) == {routePaths[i] : i \in DOMAIN routePaths}

InitMatch ==
  /\ Quiet
  /\ probe \in {[op |-> "match", added |-> a, request |-> r, out |-> Pending] :
                  a \in ProbeRegistrations, r \in ProbePaths}

Match ==
  /\ probe.op = "match"
  /\ probe.out = Pending
  /\ probe' = [probe EXCEPT !.out = match(addAll(probe.added),
                                          probe.request.method,
                                          probe.request.path)]
  /\ UNCHANGED <<mgr, task, constructed, initRuns, initDone>>

SpecMatch == InitMatch /\ [][Match]_vars

(***************************************************************************)
(* Properties of the ControllerInstanceManager.                            *)
(***************************************************************************)
HasInit(c) == app.controllers[c].initMethodName # Undefined

\* Every call of getInstance() made so far on the manager of controller c
\* started before any call on it had completed.
AllConcurrent(c) ==
  \A p \in Tasks : task[p].ctl = c => task[p].call # "later"

\* C1: under getInstance() calls on one manager that all start before any of
\* them has completed, the controller class is constructed at most once.
C1_ConstructedAtMostOnce ==
  \A c \in Controllers : AllConcurrent(c) => constructed[c] <= 1

\* C2: for a controller that declares an init method, concurrent
\* getInstance() calls run the init hook exactly once: never twice, and not
\* zero times once a call has returned.
C2_InitHookExactlyOnce ==
  \A c \in Controllers :
    HasInit(c) /\ AllConcurrent(c) =>
      /\ initRuns[c] <= 1
      /\ (\E p \in Tasks : task[p].ctl = c /\ task[p].ret # NoObject)
           => initRuns[c] = 1

\* C3: all callers whose getInstance() calls on one manager started before
\* any completed receive the same instance object.
C3_SameInstance ==
  \A p, q \in Tasks :
    /\ task[p].ctl = task[q].ctl
    /\ task[p].call = "first" /\ task[q].call = "first"
    /\ task[p].ret # NoObject /\ task[q].ret # NoObject
    => task[p].ret = task[q].ret

\* C4: for a controller with an init method, getInstance() never returns, and
\* no handler method is called on, an instance whose init hook has not
\* completed.
C4_NoPartiallyInitialized ==
  \A p \in Tasks, c \in Controllers :
    task[p].ctl = c /\ HasInit(c) =>
      /\ task[p].ret # NoObject => task[p].ret \in initDone[c]
      /\ task[p].called # NoObject => task[p].called \in initDone[c]

\* C5: a failing init hook fails its call, and a later getInstance() call, made
\* while no other call is in flight, never returns an instance whose init hook
\* did not complete successfully.
C5_ReadyOnlyAfterInit ==
  \A p \in Tasks, c \in Controllers :
    task[p].ctl = c /\ HasInit(c) /\ task[p].alone /\ task[p].ret # NoObject
      => task[p].ret \in initDone[c]

(***************************************************************************)
(* Properties of the dispatch on the two transports.                       *)
(***************************************************************************)

\* The request or event of task t matches no registered route.
Unrouted(t) ==
  \/ /\ t.kind = "request"
     /\ \/ ~t.req.url
        \/ \A rp \in routeMatcher :
             ~PatternMatches(rp, t.req.method, t.req.path)
  \/ /\ t.kind = "event"
     /\ [method |-> t.req.method, path |-> t.req.path]
          \notin DOMAIN routesByPath

\* C6: on both transports a request that matches no registered route ends
\* with a result of status 404 that carries the not-found description: it
\* neither fails with a fault nor produces another status.
C6_UnroutedIsNotFound ==
  \A p \in Tasks :
    Unrouted(task[p]) =>
      /\ task[p].pc = "done"
      /\ Len(task[p].response) = 1
      /\ task[p].response[1].statusCode = 404
      /\ task[p].response[1].body = Str(statusCodeToDesc(404))

\* C7: every request the Node listener has finished with was answered: a
\* response was written and ended, also when the body, the module, the
\* construction or the init hook failed.
C7_EveryRequestAnswered ==
  \A p \in Tasks :
    task[p].kind = "request" /\ task[p].pc \in {"done", "rejected"}
      => Len(task[p].response) = 1

\* C8: in every dispatch the handler method is invoked only after the
\* validation of the inputs has succeeded; a validation failure means no
\* invocation.
C8_InvokedOnlyIfValid ==
  \A p \in Tasks :
    task[p].kind \in {"request", "event"} =>
      /\ task[p].invoked => task[p].valid = "ok"
      /\ task[p].valid = "failed" =>
           ~task[p].invoked /\ task[p].called = NoObject

\* A dispatch whose validation failed has ended with status 400 and without
\* an invocation, on both transports.
C8_Witness ==
  \A kind \in {"request", "event"} :
    \E p \in Tasks :
      /\ task[p].kind = kind
      /\ task[p].valid = "failed"
      /\ task[p].pc = "done"
      /\ ~task[p].invoked
      /\ task[p].response[1].statusCode = 400

(***************************************************************************)
(* Properties of LambdaExtractor.extract.                                  *)
(***************************************************************************)
IsBadRequest(out) ==
  out.k = "throw" /\ out.name = "HttpError" /\ out.statusCode = 400

\* A body input declared Buffer was extracted from an event whose
\* isBase64Encoded flag is not set.
BinaryUnflagged ==
  /\ probe.op = "extract"
  /\ probe.out # Pending
  /\ probe.input.location = "body"
  /\ probe.input.declaredTypeName = "Buffer"
  /\ ~probe.event.isBase64Encoded

HasBody(event) == event.body.some /\ event.body.v # ""

\* C9, as claimed: extracting a body input declared Buffer from an event whose
\* isBase64Encoded flag is not set fails with status 400 for every body,
\* an empty or absent one included.
C9_Original == BinaryUnflagged => IsBadRequest(probe.out)

\* C9, amended: it fails with status 400 for every non-empty body, and
\* returns undefined for an empty or absent body.
C9_BinaryUnflaggedIsBadRequest ==
  BinaryUnflagged =>
    IF HasBody(probe.event) THEN IsBadRequest(probe.out)
    ELSE probe.out = Return(Undef)

C9_Witness ==
  BinaryUnflagged /\ HasBody(probe.event) /\ IsBadRequest(probe.out)

(***************************************************************************)
(* Properties of the result writers.                                       *)
(***************************************************************************)

\* The names of a header mapping that spell Content-Type in any
\* capitalisation.
ContentTypeNames(headers) ==
  {n \in DOMAIN headers : toLowerCase(n) = "content-type"}

\* C10: the headers sendResultResponse writes contain exactly one
\* Content-Type: application/json when the result names none, the result's
\* own value when it names one in any capitalisation; the other headers of
\* the result pass through.
C10_ExactlyOneContentType ==
  probe.op = "write" /\ probe.node # Pending =>
    LET given == probe.result.headers
        out == probe.node.headers
    IN /\ Cardinality(ContentTypeNames(out)) = 1
       /\ IF ContentTypeNames(given) = {}
          THEN out["Content-Type"] = "application/json"
          ELSE \A n \in ContentTypeNames(out) :
                 n \in DOMAIN given /\ out[n] = toString(given[n])
       /\ \A n \in DOMAIN given \ ContentTypeNames(given) :
            n \in DOMAIN out /\ out[n] = toString(given[n])
       /\ DOMAIN out \subseteq DOMAIN given \cup {"Content-Type", "Set-Cookie"}

\* Entry i of an outgoing cookie list is `name=value` of cookie i.
IsCookieEntries(cookies, entries) ==
  /\ Len(entries) = Len(cookies)
  /\ \A i \in DOMAIN cookies :
       entries[i] = cookies[i][1] \o "=" \o toString(cookies[i][2])

\* C11: each cookie of a RuntimeResult yields exactly one outgoing entry
\* `name=value`, in the Set-Cookie list of the Node writer and in the cookies
\* list of the Lambda result: as many entries as cookies, and no Set-Cookie
\* header at all when the result has no cookie.
C11_OneEntryPerCookie ==
  probe.op = "write" =>
    /\ probe.node # Pending =>
         IF probe.result.cookies = <<>>
         THEN "Set-Cookie" \notin DOMAIN probe.node.headers
         ELSE /\ "Set-Cookie" \in DOMAIN probe.node.headers
              /\ IsCookieEntries(probe.result.cookies,
                                 probe.node.headers["Set-Cookie"])
    /\ probe.lambda # Pending =>
         IsCookieEntries(probe.result.cookies, probe.lambda.cookies)

\* A result with the cookies a and c was written on both transports, with
\* the two entries a=b and c=d on each.
C11_Witness ==
  /\ probe.op = "write"
  /\ Len(probe.result.cookies) > 1
  /\ probe.node # Pending
  /\ probe.lambda # Pending
  /\ probe.node.headers["Set-Cookie"] = <<"a=b", "c=d">>
  /\ probe.lambda.cookies = <<"a=b", "c=d">>

(***************************************************************************)
(* Properties of RouteMatcher.match.                                       *)
(***************************************************************************)
IsLiteral(routePath) ==
  \A i \in DOMAIN routePath.path : routePath.path[i].k = "lit"

\* The route paths added to the probed matcher that match its request.
Matching ==
  {rp \in addAll(probe.added) :
     PatternMatches(rp, probe.request.method, probe.request.path)}

\* C12: when a literal route path and a parameterized one of the same method
\* and segment count both match the request, match() resolves to the literal
\* one with an empty parameter map, in whatever order they were added.
C12_LiteralPrecedence ==
  probe.op = "match" /\ probe.out # Pending =>
    \A lit \in Matching :
      IsLiteral(lit) =>
        /\ probe.out.found
        /\ probe.out.path = lit
        /\ DOMAIN probe.out.pathParameters = {}

\* GET /users/me was matched where /users/{id} was added before /users/me,
\* and the literal route was the result.
C12_Witness ==
  /\ probe.op = "match"
  /\ probe.out # Pending
  /\ \E i, j \in DOMAIN probe.added :
       /\ i < j
       /\ ~IsLiteral(probe.added[i])
       /\ IsLiteral(probe.added[j])
       /\ {probe.added[i], probe.added[j]} \subseteq Matching
  /\ probe.out.found
  /\ IsLiteral(probe.out.path)

(***************************************************************************)
(* Properties of the order of the pipeline's steps.                        *)
(***************************************************************************)

\* Task p is the only task that has done anything.
OnlyTask(p) == \A q \in Tasks \ {p} : task[q].kind = "none"

\* C13: in the Node request listener the controller instance is obtained
\* only after the inputs were extracted and validated: a request whose
\* validation failed has caused no construction of its controller and no
\* execution of its init hook.
C13_NoConstructionIfInvalid ==
  \A p \in Tasks :
    /\ task[p].kind = "request"
    /\ task[p].valid = "failed"
    /\ OnlyTask(p)
    => /\ constructed[task[p].ctl] = 0
       /\ initRuns[task[p].ctl] = 0

(***************************************************************************)
(* Properties of the cached instance.                                      *)
(***************************************************************************)

\* A getInstance() call on the manager of controller c has returned an
\* instance.
Succeeded(c) ==
  \E q \in Tasks :
    task[q].ctl = c /\ task[q].call # "none" /\ task[q].ret # NoObject

\* A call has completed successfully and no call is in flight.
Settled(c) == Succeeded(c) /\ CallAlone(c)

\* No getInstance() call made so far on the manager of controller c started
\* while another one was in flight.
NonOverlapping(c) ==
  \A p \in Tasks : task[p].ctl = c /\ task[p].call # "none" => task[p].alone

\* Over non-overlapping calls of which one has returned, the controller was
\* constructed once and its init hook, if declared, was run once.
OnceOverNonOverlapping ==
  \A c \in Controllers :
    NonOverlapping(c) /\ Succeeded(c) =>
      /\ constructed[c] = 1
      /\ initRuns[c] = IF HasInit(c) THEN 1 ELSE 0

\* From a settled manager no step constructs, runs the init hook or replaces
\* the cached instance, and a getInstance() call returns at once the cached
\* instance, which is the one a completed call returned.
CachedStep ==
  \A c \in Controllers :
    Settled(c) =>
      /\ constructed'[c] = constructed[c]
      /\ initRuns'[c] = initRuns[c]
      /\ mgr'[c].instance = mgr[c].instance
      /\ \A p \in Tasks :
           task[p].call = "none" /\ task'[p].call # "none" /\ task'[p].ctl = c
             => /\ task'[p].pc = "gotInstance"
                /\ task'[p].ret = mgr[c].instance
                /\ \E q \in Tasks \ {p} :
                     task[q].ctl = c /\ task[q].ret = task'[p].ret

\* C14: once a getInstance() call on a manager has completed successfully
\* and no other call is in flight, every later call returns that same cached
\* instance with no further construction and no further init-hook execution;
\* over non-overlapping calls the construction and the init hook happen
\* exactly once.
C14_CachedInstanceReused == []OnceOverNonOverlapping /\ [][CachedStep]_vars

\* A later call, made alone on the manager of a controller with an init
\* method, returned the instance the first call returned, after one
\* construction and one init-hook execution.
C14_Witness ==
  \E p, q \in Tasks, c \in Controllers :
    /\ p # q
    /\ HasInit(c)
    /\ task[p].ctl = c /\ task[q].ctl = c
    /\ task[q].call = "first" /\ task[q].alone
    /\ task[p].call = "later" /\ task[p].alone
    /\ task[q].ret # NoObject
    /\ task[p].ret = task[q].ret
    /\ constructed[c] = 1
    /\ initRuns[c] = 1

(***************************************************************************)
(* Properties of the managers.                                             *)
(***************************************************************************)

\* Task t was dispatched to a route.
Routed(t) == t.kind \in {"request", "event"} /\ t.route # NoRoute

\* C15: there is exactly one ControllerInstanceManager per controller of the
\* app, created when the listener (the handler) is built; all routes of a
\* controller are registered with that one manager, and handling a request
\* neither creates a manager nor hands a route to another manager.
C15_OneManagerPerController ==
  /\ DOMAIN mgr = Managers
  /\ Cardinality(Managers) = Len(app.controllers)
  /\ \A rp, rq \in DOMAIN routeMap :
       routeMap[rp].route.c = routeMap[rq].route.c
         <=> routeMap[rp].controllerInstanceManager
               = routeMap[rq].controllerInstanceManager
  /\ \A rk, rl \in DOMAIN routesByPath :
       routesByPath[rk].route.c = routesByPath[rl].route.c
         <=> routesByPath[rk].controllerManager
               = routesByPath[rl].controllerManager
  /\ \A p, q \in Tasks :
       Routed(task[p]) /\ Routed(task[q]) =>
         /\ task[p].ctl \in DOMAIN mgr
         /\ task[p].route.c = task[q].route.c <=> task[p].ctl = task[q].ctl

\* Two requests to different routes of one controller were both given an
\* instance by the same manager.
C15_Witness ==
  \E p, q \in Tasks :
    /\ task[p].kind = "request" /\ task[q].kind = "request"
    /\ task[p].route.c = task[q].route.c
    /\ task[p].route.r # task[q].route.r
    /\ task[p].ctl = task[q].ctl
    /\ task[p].ret # NoObject /\ task[q].ret # NoObject

(***************************************************************************)
(* Properties of invokeStatic.                                             *)
(***************************************************************************)

\* The step is one of an invokeStatic() call of task p.
StaticStep(p) == task'[p] # task[p] /\ task'[p].kind = "invokeStatic"

\* C16: invokeStatic() resolves the class only: none of its steps constructs
\* a controller or runs an init hook, and each leaves the cached instance
\* and the initialized flag of every manager as they were.
C16_InvokeStaticFrame ==
  [][\A p \in Tasks :
       StaticStep(p) =>
         /\ constructed' = constructed
         /\ initRuns' = initRuns
         /\ initDone' = initDone
         /\ \A m \in DOMAIN mgr :
              /\ mgr'[m].instance = mgr[m].instance
              /\ mgr'[m].initialized = mgr[m].initialized]_vars

\* An invokeStatic() call has completed on a manager that loaded its module
\* and still has no instance, while another manager holds one.
C16_Witness ==
  \E p \in Tasks, m \in DOMAIN mgr :
    /\ task[p].kind = "invokeStatic"
    /\ task[p].pc = "done"
    /\ mgr[task[p].ctl].module
    /\ mgr[task[p].ctl].instance = NoObject
    /\ constructed[task[p].ctl] = 0
    /\ mgr[m].instance # NoObject

(***************************************************************************)
(* Further properties of LambdaExtractor.extract.                          *)
(***************************************************************************)

\* The probed extraction was done.
Extracted == probe.op = "extract" /\ probe.out # Pending

\* The text is not valid JSON.
Malformed(text) == JSONparse(text).k = "throw"

\* C17: extracting a body input whose declared type is neither string nor
\* Buffer from an event whose non-empty body is malformed structured data
\* fails with a client error of status 400, not with an unclassified fault.
C17_MalformedBodyIsBadRequest ==
  /\ Extracted
  /\ probe.input.location = "body"
  /\ probe.input.declaredTypeName \notin {"string", "Buffer"}
  /\ HasBody(probe.event)
  /\ Malformed(probe.event.body.v)
  => IsBadRequest(probe.out)

\* A cookie string split at its first "=": the text before it and the text
\* after it.
HasEq(cookie) == \E i \in DOMAIN cookie : cookie[i] = "="

EqAt(cookie) ==
  CHOOSE i \in DOMAIN cookie :
    cookie[i] = "=" /\ \A j \in 1..(i - 1) : cookie[j] # "="

Before(cookie) == concat(SubSeq(cookie, 1, EqAt(cookie) - 1))

After(cookie) == concat(SubSeq(cookie, EqAt(cookie) + 1, Len(cookie)))

\* The entries of the cookie list that are `name=value` strings named n.
Named(cookies, n) ==
  {i \in DOMAIN cookies : HasEq(cookies[i]) /\ Before(cookies[i]) = n}

\* C18: a cookie input named n is resolved to the text after the first "="
\* of the first entry of the event's cookie list whose text before its first
\* "=" is n (a text that may contain "=" or be empty), and to undefined when
\* no entry has that name or the event has no cookie list.
C18_CookieByFirstEq ==
  Extracted /\ probe.input.location = "cookie" =>
    LET cookies == probe.event.cookies
        n == probe.input.name
    IN IF cookies.some /\ Named(cookies.v, n) # {}
       THEN LET first == CHOOSE i \in Named(cookies.v, n) :
                           \A j \in Named(cookies.v, n) : i <= j
            IN probe.out = Return(Str(After(cookies.v[first])))
       ELSE probe.out = Return(Undef)

\* The cookie sid was extracted from the list "=x", "sid=a=b", "sid=z": the
\* result is a=b, the value of the first entry named sid, "=" included.
C18_Witness ==
  /\ Extracted
  /\ probe.input.location = "cookie"
  /\ probe.input.name = "sid"
  /\ probe.event.cookies.some
  /\ Cardinality(Named(probe.event.cookies.v, "sid")) > 1
  /\ probe.out = Return(Str("a=b"))

\* The event carries no value for the input.
Absent(event, input) ==
  CASE input.location = "query" ->
         \/ ~event.queryStringParameters.some
         \/ input.name \notin DOMAIN event.queryStringParameters.v
    [] input.location = "path" ->
         \/ ~event.pathParameters.some
         \/ input.name \notin DOMAIN event.pathParameters.v
    [] input.location = "header" ->
         \/ ~event.headers.some
         \/ toLowerCase(input.name) \notin DOMAIN event.headers.v
    [] input.location = "cookie" ->
         \/ ~event.cookies.some
         \/ Named(event.cookies.v, input.name) = {}
    [] input.location = "body" -> ~HasBody(event)
    [] OTHER -> FALSE

\* C19: extracting an input that is absent from the event returns undefined
\* and raises no error, for each of the locations query, path, header,
\* cookie and body and every declared type, also when the event's map or
\* cookie list is itself absent.
C19_AbsentIsUndefined ==
  Extracted /\ Absent(probe.event, probe.input) => probe.out = Return(Undef)

(***************************************************************************)
(* Properties of the responses of the Node listener.                       *)
(***************************************************************************)

\* At most one response was written for each request.
AtMostOneResponse ==
  \A p \in Tasks : task[p].kind = "request" => Len(task[p].response) <= 1

\* A response that was written is final: nothing is written after it.
ResponseFinal ==
  \A p \in Tasks :
    task[p].kind = "request" /\ task[p].response # <<>>
      => task'[p].response = task[p].response

\* C20: the Node listener writes each request's response at most once: one
\* of sendErrorResponse and sendResultResponse is called, at most once, so a
\* 404 response is never followed by a result response.
C20_ResponseWrittenOnce == []AtMostOneResponse /\ [][ResponseFinal]_vars

\* One request was answered 404 by sendErrorResponse and another was
\* answered with its result by sendResultResponse, each with one response.
C20_Witness ==
  \E p, q \in Tasks :
    /\ task[p].kind = "request" /\ task[q].kind = "request"
    /\ task[p].pc = "done" /\ task[q].pc = "done"
    /\ task[p].response = <<sendErrorResponse(404)>>
    /\ task[q].route # NoRoute
    /\ task[q].response = <<sendResultResponse(task[q].result)>>

=============================================================================
